---- MODULE Spec2Model ----
(***************************************************************************)
(* The three PDF-to-HTML services of the repository, one request at a time *)
(*   "app"        src/app.py                     (pdf2htmlEX, options)     *)
(*   "pdf2htmlx"  src/pdf2htmlx-service/app.py   (pdf2htmlEX, fixed flags) *)
(*   "pdf2htmlex" src/pdf2htmlex-service/app.py  (PyMuPDF, <pre> pages)    *)
(* A request walks through the handler step by step (pc); the network, the *)
(* PDF bytes and the converter process are inputs drawn from small sets.   *)
(***************************************************************************)
EXTENDS Integers, Sequences, FiniteSets, TLC

VARIABLES
    svc,            \* which service handles the request
    pc,             \* position of the request in the handler
    req,            \* the request body
    status,         \* HTTP status of the response (0: none yet)
    cause,          \* why the request failed ("none": it has not)
    detail,         \* the 422 body's "detail" list
    acquired,       \* a decode or download of the PDF bytes was attempted
    doc,            \* the PDF bytes obtained
    page_count,     \* app.py: page_count local
    tmpCreated,     \* a temporary directory was created for this request
    tmpExists,      \* that directory exists now
    tmpFiles,       \* the files in it
    invoked,        \* the converter (pdf2htmlEX process / fitz.open) was invoked
    command,        \* the page arguments of the pdf2htmlEX command line
    returncode,     \* how the converter process ended
    effective,      \* the page range the converter rendered
    payload,        \* what the handler read back from the directory
    html_fragments, \* pdf2htmlex-service: html_fragments local
    pages,          \* pdf2htmlex-service: pages local / pdf2htmlx: pages local
    metrics,        \* metrics.pages of the response
    text,           \* escaping: the page text
    fragment,       \* escaping: the rendered page fragment
    registry,       \* style registry: the interned keys, first seen first
    internLog,      \* style registry: the intern calls made, with their results
    docPages        \* pdf2htmlex-service: the page texts of the opened document

vars == <<svc, pc, req, status, cause, detail, acquired, doc, page_count,
          tmpCreated, tmpExists, tmpFiles, invoked, command, returncode,
          effective, payload, html_fragments, pages, metrics, text, fragment,
          registry, internLog, docPages>>

reqVars == <<svc, pc, req, status, cause, detail, acquired, doc, page_count,
             tmpCreated, tmpExists, tmpFiles, invoked, command, returncode,
             effective, payload, html_fragments, pages, metrics, docPages>>

---------------------------------------------------------------------------
(* Bounds *)

MaxPages == 4
MaxText == 3
MaxInterns == 4

(* Program constants *)

None == -1
MAX_PDF_BYTES == 20 * 1024 * 1024
EnumerateStartMutant == 1 - 1
EnumerateStart == 1

Services == {"app", "pdf2htmlx", "pdf2htmlex"}

\* pdf_b64 as sent: missing, "", whitespace only, not base64, base64.
B64Values == {"absent", "empty", "blank", "invalid", "valid"}
\* pdf_url as sent: missing, "", whitespace only, another scheme, http(s).
UrlValues == {"absent", "empty", "blank", "nonhttp", "ok"}
PageValues == {None} \cup (0 .. MaxPages + 1)

Min(a, b) == IF a <= b THEN a ELSE b
Max(a, b) == IF a >= b THEN a ELSE b

\* Python truthiness of an Optional[str]
Truthy(s) == s \notin {"absent", "empty"}

NoDoc == [size |-> 0, pages |-> 0, readable |-> FALSE]
\* The bytes a decode or a download returns: their length, the pages the PDF
\* has, and whether the Python PDF library (pypdf, fitz) can open them.
Docs == [size : {MAX_PDF_BYTES, MAX_PDF_BYTES + 1},
         pages : 0 .. MaxPages,
         readable : BOOLEAN]

NoRange == [from |-> 0, to |-> 0]
NoCommand == [first |-> None, last |-> None]
NoPayload == [kind |-> "none", files |-> {}]

---------------------------------------------------------------------------
(* Request validation (pydantic) *)

\* Field(default=None, ge=1) of page_from / page_to
field_ge_1(name, v) == IF v # None /\ v < 1 THEN <<name>> ELSE << >>

\* values.get(name) in a root validator: a field that failed is not in values
values_get(v) == IF v # None /\ v < 1 THEN None ELSE v

\* Python truthiness of an Optional[int]
TruthyInt(v) == v # None /\ v # 0

validate_page_range(start, end) ==
    IF TruthyInt(start) /\ TruthyInt(end) /\ start > end
    THEN <<"page_from must be <= page_to">>
    ELSE << >>

\* PdfOptions: the field errors, then the root validator's
PdfOptionsErrors(r) ==
    field_ge_1("page_from", r.page_from) \o field_ge_1("page_to", r.page_to)
    \o validate_page_range(values_get(r.page_from), values_get(r.page_to))

validate_source_mutant(pdf_b64, pdf_url) == << >>
validate_source(pdf_b64, pdf_url) ==
    IF ~Truthy(pdf_b64) /\ ~Truthy(pdf_url)
    THEN <<"At least one of pdf_b64 or pdf_url must be provided">>
    ELSE << >>

\* Pdf2HtmlIn of app.py
Pdf2HtmlInErrors(r) ==
    PdfOptionsErrors(r) \o validate_source(r.pdf_b64, r.pdf_url)

\* pydantic HttpUrl: an http(s) URL, or the field is absent
HttpUrlErrors(u) == IF u \in {"absent", "ok"} THEN << >> ELSE <<"pdf_url">>

strip_whitespace(value) == IF value = "blank" THEN "empty" ELSE value

ensure_source_present(pdf_b64, pdf_url) ==
    IF ~Truthy(pdf_b64) /\ ~Truthy(pdf_url)
    THEN <<"One of pdf_b64 or pdf_url must be provided.">>
    ELSE << >>

\* ConversionRequest of pdf2htmlx-service: the field validators, and the
\* mode="after" validator when no field failed
ConversionRequestErrors(r) ==
    IF HttpUrlErrors(r.pdf_url) # << >>
    THEN HttpUrlErrors(r.pdf_url)
    ELSE ensure_source_present(strip_whitespace(r.pdf_b64), r.pdf_url)

ValidationErrors(s, r) ==
    CASE s = "app" -> Pdf2HtmlInErrors(r)
      [] s = "pdf2htmlx" -> ConversionRequestErrors(r)
      [] OTHER -> HttpUrlErrors(r.pdf_url)

\* The payload object the handler receives
Parsed(s, r) ==
    IF s = "pdf2htmlx" THEN [r EXCEPT !.pdf_b64 = strip_whitespace(@)] ELSE r

---------------------------------------------------------------------------
(* PDF byte acquisition: the cause of its failure, "none" when it returns *)

decode_pdf_from_b64(data) == IF data = "valid" THEN "none" ELSE "invalid_b64"

download_pdf(url, up) ==
    IF url = "nonhttp" THEN "bad_scheme"
    ELSE IF ~up THEN "download_failed"
    ELSE "none"

\* app.py, lines 135-144
AppAcquire(r, up) ==
    IF Truthy(r.pdf_b64) THEN decode_pdf_from_b64(r.pdf_b64)
    ELSE IF ~Truthy(r.pdf_url) THEN "assertion"
    ELSE IF strip_whitespace(r.pdf_url) = "empty" THEN "blank_url"
    ELSE download_pdf(r.pdf_url, up)

\* pdf2htmlx-service _load_pdf_bytes
XLoadPdfBytes(r, up) ==
    IF Truthy(r.pdf_b64) THEN decode_pdf_from_b64(r.pdf_b64)
    ELSE IF Truthy(r.pdf_url) THEN (IF up THEN "none" ELSE "download_failed")
    ELSE "missing_source"

\* pdf2htmlex-service _load_pdf_bytes
ELoadPdfBytes(r, up) ==
    IF Truthy(r.pdf_b64) THEN decode_pdf_from_b64(r.pdf_b64)
    ELSE IF Truthy(r.pdf_url) THEN (IF up THEN "none" ELSE "download_failed")
    ELSE "missing_source"

LoadCause(s, r, up) ==
    CASE s = "app" -> AppAcquire(r, up)
      [] s = "pdf2htmlx" -> XLoadPdfBytes(r, up)
      [] OTHER -> ELoadPdfBytes(r, up)

(* The HTTP status each service answers a failure with *)

AppStatus(c) ==
    CASE c = "validation" -> 422
      [] c \in {"invalid_b64", "blank_url", "bad_scheme", "download_failed"} -> 400
      [] c = "oversize" -> 413
      [] c = "timeout" -> 504
      [] OTHER -> 500

XStatus(c) ==
    CASE c = "validation" -> 422
      [] c \in {"invalid_b64", "download_failed", "missing_source"} -> 400
      [] c = "timeout" -> 504
      [] OTHER -> 500

\* requests.get / raise_for_status and fitz.open are not guarded: an
\* unhandled exception is answered with 500
EStatus(c) ==
    CASE c = "validation" -> 422
      [] c \in {"invalid_b64", "missing_source"} -> 400
      [] OTHER -> 500

FailureStatus(s, c) ==
    CASE s = "app" -> AppStatus(c)
      [] s = "pdf2htmlx" -> XStatus(c)
      [] OTHER -> EStatus(c)

\* Where the handler goes after acquisition: a failure is raised before
\* anything else runs
AfterAcquireMutant(s, c) ==
    CASE s = "app" -> "count"
      [] s = "pdf2htmlx" -> "mktemp"
      [] OTHER -> "open"
AfterAcquire(s, c) ==
    IF c # "none" THEN "done"
    ELSE CASE s = "app" -> "count"
           [] s = "pdf2htmlx" -> "mktemp"
           [] OTHER -> "open"

---------------------------------------------------------------------------
(* The converter *)

build_command(s, options) ==
    IF s = "app"
    THEN [first |-> options.page_from, last |-> options.page_to]
    ELSE NoCommand

\* pdf2htmlEX --first-page / --last-page on a document of P pages
ConverterRange(c, P) ==
    LET first == IF c.first = None THEN 1 ELSE c.first
        last == IF c.last = None THEN P ELSE c.last
        from == Max(1, Min(first, P))
    IN  IF P = 0 THEN [from |-> 1, to |-> 0]
        ELSE [from |-> from, to |-> Max(from, Min(last, P))]

RangeSize(r) == r.to - r.from + 1

HtmlName(s) == IF s = "app" THEN "output.html" ELSE "out.html"

ConverterResults == {"ok", "nohtml", "nonzero", "timeout"}

\* A raise inside the try / with block runs the cleanup before it leaves
TryExitMutant(s) == "done"
TryExit(s) == "cleanup"

---------------------------------------------------------------------------
(* pdf2htmlex-service: page fragments *)

\* The characters a page text is made of
TextChars == {"a", ";", "<", ">", "&", "\"", "'"}

\* s.replace(old, new) on a sequence of characters
RECURSIVE replace(_, _, _)
replace(s, old, new) ==
    IF s = << >> THEN << >>
    ELSE (IF Head(s) = old THEN new ELSE <<Head(s)>>)
         \o replace(Tail(s), old, new)

\* html.escape(s, quote=True): "&" replaced first, then "<", ">" and the quotes
escape_mutant(s) ==
    replace(replace(replace(replace(s,
        "&", <<"&", "a", "m", "p", ";">>),
        ">", <<"&", "g", "t", ";">>),
        "\"", <<"&", "q", "u", "o", "t", ";">>),
        "'", <<"&", "#", "x", "2", "7", ";">>)
escape(s) ==
    replace(replace(replace(replace(replace(s,
        "&", <<"&", "a", "m", "p", ";">>),
        "<", <<"&", "l", "t", ";">>),
        ">", <<"&", "g", "t", ";">>),
        "\"", <<"&", "q", "u", "o", "t", ";">>),
        "'", <<"&", "#", "x", "2", "7", ";">>)

\* str(i) of a page index
str(i) == <<"0", "1", "2", "3", "4", "5", "6", "7", "8", "9">>[i + 1]

\* f"<section data-page='{i}'><pre>{html_mod.escape(text)}</pre></section>":
\* the generated tags are one element each, the text one element per character
Fragment(i, t) ==
    <<"<section data-page='", str(i), "'>", "<pre>">>
    \o escape(t) \o <<"</pre>", "</section>">>

Header == <<"<html><head><meta charset='utf-8'></head><body>">>
Footer == <<"</body></html>">>

\* The page texts of the documents of the service model
PageTexts == {<< >>, <<"a">>, <<"<", "&">>}

\* The texts of the escaping model
RECURSIVE SeqsUpTo(_, _)
SeqsUpTo(S, n) ==
    IF n = 0 THEN {<< >>}
    ELSE LET shorter == SeqsUpTo(S, n - 1)
         IN  shorter \cup {Append(q, c) : q \in shorter, c \in S}
Texts == SeqsUpTo(TextChars, MaxText)

---------------------------------------------------------------------------
(* Style registry (spec.md 3 and 4.2) *)

StyleKeys == {"color:#ff0000", "font-weight:bold", "font-size:12px"}

ClassId(n) == <<"s", n>>

\* The position of key in the registry, 0 when it is not interned
RECURSIVE IndexOf(_, _)
IndexOf(reg, key) ==
    IF reg = << >> THEN 0
    ELSE IF reg[Len(reg)] = key /\ IndexOf(SubSeq(reg, 1, Len(reg) - 1), key) = 0
         THEN Len(reg)
         ELSE IndexOf(SubSeq(reg, 1, Len(reg) - 1), key)

\* intern(key): the registry afterwards and the class id returned
intern_mutant(reg, key) ==
    [registry |-> Append(reg, key), id |-> ClassId(Len(reg))]
intern(reg, key) ==
    IF IndexOf(reg, key) # 0
    THEN [registry |-> reg, id |-> ClassId(IndexOf(reg, key) - 1)]
    ELSE [registry |-> Append(reg, key), id |-> ClassId(Len(reg))]

emit_css(reg) == [n \in 1 .. Len(reg) |-> <<ClassId(n - 1), reg[n]>>]

---------------------------------------------------------------------------
(* The request handlers *)

NoRequest == [pdf_b64 |-> "absent", pdf_url |-> "absent",
              page_from |-> None, page_to |-> None, returnZipB64 |-> FALSE]

Init ==
    /\ svc = "app"
    /\ pc = "idle"
    /\ req = NoRequest
    /\ status = 0
    /\ cause = "none"
    /\ detail = << >>
    /\ acquired = FALSE
    /\ doc = NoDoc
    /\ page_count = 0
    /\ tmpCreated = FALSE
    /\ tmpExists = FALSE
    /\ tmpFiles = {}
    /\ invoked = FALSE
    /\ command = NoCommand
    /\ returncode = "none"
    /\ effective = NoRange
    /\ payload = NoPayload
    /\ html_fragments = << >>
    /\ pages = None
    /\ metrics = None
    /\ text = << >>
    /\ fragment = << >>
    /\ registry = << >>
    /\ internLog = << >>
    /\ docPages = << >>

\* POST /pdf2html arrives; only app.py has options
Receive ==
    /\ pc = "idle"
    /\ \E s \in Services, b \in B64Values, u \in UrlValues,
          f \in PageValues, t \in PageValues, z \in BOOLEAN :
          /\ s # "app" => (f = None /\ t = None /\ z = FALSE)
          /\ svc' = s
          /\ req' = [pdf_b64 |-> b, pdf_url |-> u,
                     page_from |-> f, page_to |-> t, returnZipB64 |-> z]
    /\ pc' = "validate"
    /\ UNCHANGED <<status, cause, detail, acquired, doc, page_count, tmpCreated,
                   tmpExists, tmpFiles, invoked, command, returncode, effective,
                   payload, html_fragments, pages, metrics, text, fragment,
                   registry, internLog, docPages>>

\* The body is parsed into the model; a RequestValidationError is answered 422
Validate ==
    /\ pc = "validate"
    /\ LET errors == ValidationErrors(svc, req)
       IN  IF errors # << >>
           THEN /\ detail' = errors
                /\ status' = FailureStatus(svc, "validation")
                /\ cause' = "validation"
                /\ pc' = "done"
                /\ req' = req
           ELSE /\ req' = Parsed(svc, req)
                /\ pc' = "acquire"
                /\ UNCHANGED <<detail, status, cause>>
    /\ UNCHANGED <<svc, acquired, doc, page_count, tmpCreated, tmpExists,
                   tmpFiles, invoked, command, returncode, effective, payload,
                   html_fragments, pages, metrics, text, fragment, registry,
                   internLog, docPages>>

\* The PDF bytes are decoded or downloaded; app.py then checks their length
Acquire(d, up) ==
    /\ pc = "acquire"
    /\ acquired' = TRUE
    /\ LET loaded == LoadCause(svc, req, up)
           c == IF loaded = "none" /\ svc = "app" /\ d.size > MAX_PDF_BYTES
                THEN "oversize" ELSE loaded
       IN  /\ cause' = c
           /\ status' = IF c = "none" THEN 0 ELSE FailureStatus(svc, c)
           /\ doc' = IF c = "none" THEN d ELSE NoDoc
           /\ pc' = AfterAcquire(svc, c)
    /\ UNCHANGED <<svc, req, detail, page_count, tmpCreated, tmpExists,
                   tmpFiles, invoked, command, returncode, effective, payload,
                   html_fragments, pages, metrics, text, fragment, registry,
                   internLog, docPages>>

\* app.py: page_count from PdfReader, 0 when it raises
CountPages ==
    /\ pc = "count"
    /\ page_count' = IF doc.readable THEN doc.pages ELSE 0
    /\ pc' = "mktemp"
    /\ UNCHANGED <<svc, req, status, cause, detail, acquired, doc, tmpCreated,
                   tmpExists, tmpFiles, invoked, command, returncode, effective,
                   payload, html_fragments, pages, metrics, text, fragment,
                   registry, internLog, docPages>>

\* tempfile.mkdtemp / TemporaryDirectory
MkTemp ==
    /\ pc = "mktemp"
    /\ tmpCreated' = TRUE
    /\ tmpExists' = TRUE
    /\ tmpFiles' = {}
    /\ pc' = "write"
    /\ UNCHANGED <<svc, req, status, cause, detail, acquired, doc, page_count,
                   invoked, command, returncode, effective, payload,
                   html_fragments, pages, metrics, text, fragment, registry,
                   internLog, docPages>>

\* input.pdf is written and the command line built
WritePdf ==
    /\ pc = "write"
    /\ tmpFiles' = tmpFiles \cup {"input.pdf"}
    /\ command' = build_command(svc, req)
    /\ pc' = "run"
    /\ UNCHANGED <<svc, req, status, cause, detail, acquired, doc, page_count,
                   tmpCreated, tmpExists, invoked, returncode, effective,
                   payload, html_fragments, pages, metrics, text, fragment,
                   registry, internLog, docPages>>

\* subprocess.run: the process ends one of four ways and may leave an asset
\* file; a timeout raises 504, and with check=True (pdf2htmlx) a non-zero exit
\* raises 500
RunConverter(result, asset) ==
    /\ pc = "run"
    /\ invoked' = TRUE
    /\ returncode' = result
    /\ tmpFiles' = tmpFiles
                   \cup (IF result = "ok" THEN {HtmlName(svc)} ELSE {})
                   \cup (IF asset THEN {"asset"} ELSE {})
    /\ effective' = IF result = "ok" THEN ConverterRange(command, doc.pages)
                    ELSE NoRange
    /\ LET c == CASE result = "timeout" -> "timeout"
                  [] result = "nonzero" /\ svc = "pdf2htmlx" -> "converter_failed"
                  [] OTHER -> "none"
       IN  /\ cause' = c
           /\ status' = IF c = "none" THEN 0 ELSE FailureStatus(svc, c)
           /\ pc' = IF c = "none" THEN "check" ELSE TryExit(svc)
    /\ UNCHANGED <<svc, req, detail, acquired, doc, page_count, tmpCreated,
                   tmpExists, command, payload, html_fragments, pages, metrics,
                   text, fragment, registry, internLog, docPages>>

\* The exit code (app.py) and the existence of the HTML file are checked
CheckOutput ==
    /\ pc = "check"
    /\ LET c == CASE svc = "app" /\ returncode # "ok" /\ returncode # "nohtml"
                       -> "converter_failed"
                  [] HtmlName(svc) \notin tmpFiles -> "no_html"
                  [] OTHER -> "none"
       IN  /\ cause' = c
           /\ status' = IF c = "none" THEN 0 ELSE FailureStatus(svc, c)
           /\ pc' = IF c = "none" THEN "read" ELSE TryExit(svc)
    /\ UNCHANGED <<svc, req, detail, acquired, doc, page_count, tmpCreated,
                   tmpExists, tmpFiles, invoked, command, returncode, effective,
                   payload, html_fragments, pages, metrics, text, fragment,
                   registry, internLog, docPages>>

\* The response payload is read from the directory: the HTML file, or a zip
\* of every file but input.pdf; pdf2htmlx searches the process output for a
\* page count (found: a number, or not found)
ReadPayload(found) ==
    /\ pc = "read"
    /\ svc = "app" => found = None
    /\ payload' = IF req.returnZipB64
                  THEN [kind |-> "zip", files |-> tmpFiles \ {"input.pdf"}]
                  ELSE [kind |-> "html", files |-> tmpFiles \cap {HtmlName(svc)}]
    /\ pages' = found
    /\ pc' = "cleanup"
    /\ UNCHANGED <<svc, req, status, cause, detail, acquired, doc, page_count,
                   tmpCreated, tmpExists, tmpFiles, invoked, command, returncode,
                   effective, html_fragments, metrics, text, fragment, registry,
                   internLog, docPages>>

\* finally: shutil.rmtree / leaving the TemporaryDirectory block
Cleanup ==
    /\ pc = "cleanup"
    /\ tmpExists' = FALSE
    /\ tmpFiles' = {}
    /\ pc' = IF status = 0 THEN "respond" ELSE "done"
    /\ UNCHANGED <<svc, req, status, cause, detail, acquired, doc, page_count,
                   tmpCreated, invoked, command, returncode, effective, payload,
                   html_fragments, pages, metrics, text, fragment, registry,
                   internLog, docPages>>

\* pdf2htmlex-service: fitz.open, which raises on bytes it cannot open; the
\* opened document has one text per page
OpenDoc ==
    /\ pc = "open"
    /\ invoked' = TRUE
    /\ IF doc.readable
       THEN /\ docPages' \in [1 .. doc.pages -> PageTexts]
            /\ html_fragments' = <<Header>>
            /\ pages' = 0
            /\ pc' = "render"
            /\ UNCHANGED <<status, cause>>
       ELSE /\ cause' = "open_failed"
            /\ status' = FailureStatus(svc, "open_failed")
            /\ pc' = "done"
            /\ UNCHANGED <<html_fragments, pages, docPages>>
    /\ UNCHANGED <<svc, req, detail, acquired, doc, page_count, tmpCreated,
                   tmpExists, tmpFiles, command, returncode, effective,
                   payload, metrics, text, fragment, registry, internLog>>

\* pdf2htmlex-service: one turn of the loop over enumerate(doc, start=1)
RenderPage ==
    /\ pc = "render"
    /\ Len(html_fragments) - 1 < Len(docPages)
    /\ LET k == Len(html_fragments) - 1
           i == EnumerateStart + k
       IN  /\ pages' = i
           /\ html_fragments' =
                  Append(html_fragments, Fragment(i, docPages[k + 1]))
    /\ UNCHANGED <<svc, pc, req, status, cause, detail, acquired, doc,
                   page_count, tmpCreated, tmpExists, tmpFiles, invoked, command,
                   returncode, effective, payload, metrics, text, fragment,
                   registry, internLog, docPages>>

\* pdf2htmlex-service: the loop is over, the document is closed
FinishRender ==
    /\ pc = "render"
    /\ Len(html_fragments) - 1 = Len(docPages)
    /\ html_fragments' = Append(html_fragments, Footer)
    /\ pc' = "respond"
    /\ UNCHANGED <<svc, req, status, cause, detail, acquired, doc, page_count,
                   tmpCreated, tmpExists, tmpFiles, invoked, command, returncode,
                   effective, payload, pages, metrics, text, fragment, registry,
                   internLog, docPages>>

\* The 200 response with its metrics
Respond ==
    /\ pc = "respond"
    /\ status' = 200
    /\ metrics' = IF svc = "app" THEN page_count ELSE pages
    /\ pc' = "done"
    /\ UNCHANGED <<svc, req, cause, detail, acquired, doc, page_count,
                   tmpCreated, tmpExists, tmpFiles, invoked, command, returncode,
                   effective, payload, html_fragments, pages, text, fragment,
                   registry, internLog, docPages>>

Next ==
    \/ Receive
    \/ Validate
    \/ \E d \in Docs, up \in BOOLEAN : Acquire(d, up)
    \/ CountPages
    \/ MkTemp
    \/ WritePdf
    \/ \E result \in ConverterResults, asset \in BOOLEAN :
          RunConverter(result, asset)
    \/ CheckOutput
    \/ \E found \in {None} \cup (0 .. MaxPages) : ReadPayload(found)
    \/ Cleanup
    \/ OpenDoc
    \/ RenderPage
    \/ FinishRender
    \/ Respond

Spec == Init /\ [][Next]_vars

---------------------------------------------------------------------------
(* The escaping of one page text, for every text up to MaxText characters *)

InitEscape ==
    /\ svc = "pdf2htmlex"
    /\ pc = "idle"
    /\ req = NoRequest
    /\ status = 0
    /\ cause = "none"
    /\ detail = << >>
    /\ acquired = FALSE
    /\ doc = NoDoc
    /\ page_count = 0
    /\ tmpCreated = FALSE
    /\ tmpExists = FALSE
    /\ tmpFiles = {}
    /\ invoked = FALSE
    /\ command = NoCommand
    /\ returncode = "none"
    /\ effective = NoRange
    /\ payload = NoPayload
    /\ html_fragments = << >>
    /\ pages = None
    /\ metrics = None
    /\ docPages = << >>
    /\ text \in Texts
    /\ fragment = << >>
    /\ registry = << >>
    /\ internLog = << >>

\* The fragment of page i, whose text is text
RenderFragment(i) ==
    /\ fragment = << >>
    /\ fragment' = Fragment(i, text)
    /\ UNCHANGED <<reqVars, text, registry, internLog>>

NextEscape == \E i \in 1 .. MaxPages : RenderFragment(i)

SpecEscape == InitEscape /\ [][NextEscape]_vars

---------------------------------------------------------------------------
(* The style registry of one document conversion *)

\* An intern call on the conversion's registry
Intern(key) ==
    /\ Len(internLog) < MaxInterns
    /\ LET r == intern(registry, key)
       IN  /\ registry' = r.registry
           /\ internLog' = Append(internLog, [key |-> key, id |-> r.id])
    /\ UNCHANGED <<reqVars, text, fragment>>

NextRegistry == \E key \in StyleKeys : Intern(key)

SpecRegistry == Init /\ [][NextRegistry]_vars

---------------------------------------------------------------------------
(* Properties *)

MissingSources == req.pdf_b64 \in {"absent", "empty"}
                  /\ req.pdf_url \in {"absent", "empty"}

Clamped(from, to, P) ==
    [from |-> Max(1, Min(from, P)),
     to |-> Max(Max(1, Min(from, P)), Min(to, P))]

\* C2: any requested 1-based page range (from, to), inverted and out of
\* bounds included, on a document of P >= 1 pages does not fail the request,
\* and the converter renders max(1, min(from, P)) .. max(from', min(to, P)).
C2_RangeIsClampedNeverRejected ==
    (svc = "app" /\ pc = "done" /\ ~MissingSources
        /\ req.page_from # None /\ req.page_from >= 1
        /\ req.page_to # None /\ req.page_to >= 1)
    => /\ cause # "validation"
       /\ (returncode = "ok" /\ doc.pages >= 1)
            => effective = Clamped(req.page_from, req.page_to, doc.pages)

BadInputCauses == {"invalid_b64", "blank_url", "bad_scheme", "download_failed",
                   "oversize", "open_failed", "missing_source"}
ConverterFaults == {"converter_failed", "no_html"}

\* C3: a failed conversion request is answered 400 when its cause is bad
\* input (base64, pdf_url, download, PDF payload), 500 when the converter
\* failed or produced no HTML, 504 when it timed out, and nothing else.
C3_StatusByCause ==
    (pc = "done" /\ cause \notin {"none", "validation"})
    => /\ cause \in BadInputCauses => status = 400
       /\ cause \in ConverterFaults => status = 500
       /\ cause = "timeout" => status = 504
       /\ status \in {400, 500, 504}

\* The pages rendered into the HTML of the response
RenderedPages ==
    IF svc = "pdf2htmlex"
    THEN Cardinality({k \in 1 .. Len(html_fragments) :
                         html_fragments[k][1] = "<section data-page='"})
    ELSE RangeSize(effective)

\* The handler has found the document to have no pages
ZeroPageDocument ==
    \/ svc = "app" /\ tmpCreated /\ page_count = 0
    \/ svc = "pdf2htmlex" /\ invoked /\ doc.readable /\ doc.pages = 0

\* C4: when the page count of the document is 0 the conversion (one the
\* converter process did not time out on) ends without an error, with zero
\* page fragments and a pages metric of 0.
C4_ZeroPagesIsEmptyDocument ==
    (pc = "done" /\ ZeroPageDocument /\ cause # "timeout")
    => /\ status = 200
       /\ RenderedPages = 0
       /\ metrics = 0

\* C7: in a successful response of app.py and pdf2htmlex-service, for a
\* document the service could read and any page_from / page_to, metrics.pages
\* is the number of pages rendered into the returned HTML.
C7_MetricsPagesIsRendered ==
    (pc = "done" /\ status = 200 /\ svc \in {"app", "pdf2htmlex"}
        /\ doc.readable)
    => metrics = RenderedPages

\* The text between the generated tags of a page fragment
Body(frag) == SubSeq(frag, 5, Len(frag) - 2)
\* The index its container carries
ContainerIndex(frag) == frag[2]

\* The section fragments rendered so far
Sections ==
    [k \in 1 .. Min(Len(html_fragments) - 1, Len(docPages)) |->
        html_fragments[k + 1]]

\* C8: the page fragments are the pages of the document in ascending order,
\* each once, the i-th in a container carrying the index i; a finished
\* document of N pages has the container indices 1, 2, ..., N.
C8_PagesInOrderOnce ==
    (svc = "pdf2htmlex" /\ pc \in {"render", "respond", "done"}
        /\ html_fragments # << >>)
    => /\ \A k \in DOMAIN Sections :
            /\ ContainerIndex(Sections[k]) = str(k)
            /\ Sections[k][1] = "<section data-page='"
            /\ Body(Sections[k]) = escape(docPages[k])
       /\ pages = Len(Sections)
       /\ pc \in {"respond", "done"}
            => /\ Len(Sections) = doc.pages
               /\ html_fragments[1] = Header
               /\ html_fragments[Len(html_fragments)] = Footer
               /\ Len(html_fragments) = doc.pages + 2

C8_Witness ==
    /\ svc = "pdf2htmlex" /\ pc = "done" /\ status = 200
    /\ doc.pages = 3
    /\ docPages[1] # docPages[2]
    /\ Len(html_fragments) = 5
    /\ ContainerIndex(html_fragments[4]) = "3"

AcquisitionFailures == {"invalid_b64", "blank_url", "bad_scheme",
                        "download_failed", "oversize", "missing_source"}

\* C9: when the acquisition of the PDF bytes fails, the request ends there:
\* no temporary directory is created, no file written, no converter invoked.
C9_FailedAcquisitionRunsNothing ==
    cause \in AcquisitionFailures
    => /\ pc = "done"
       /\ ~tmpCreated /\ ~tmpExists /\ tmpFiles = {}
       /\ ~invoked
       /\ html_fragments = << >>

C9_Witness ==
    /\ svc = "app" /\ pc = "done" /\ cause = "oversize" /\ status = 413
    /\ acquired

\* C10: once the temporary directory was created, it and every file in it
\* are gone when the handler returns or raises, whatever the converter did,
\* and a successful response holds the payload read while the directory
\* still had the converter's output.
C10_TempDirRemoved ==
    /\ (pc = "done" /\ tmpCreated) => (~tmpExists /\ tmpFiles = {})
    /\ pc = "read" => (tmpExists /\ HtmlName(svc) \in tmpFiles)
    /\ (pc = "done" /\ tmpCreated /\ status = 200)
        => /\ HtmlName(svc) \in payload.files
           /\ "input.pdf" \notin payload.files
           /\ payload.kind = (IF req.returnZipB64 THEN "zip" ELSE "html")

C10_Witness ==
    /\ pc = "done" /\ tmpCreated /\ ~tmpExists
    /\ cause = "timeout" /\ status = 504
    /\ svc = "app"

---------------------------------------------------------------------------
(* Properties of the escaping *)

\* The entity html.escape writes for a character
Entity(c) ==
    CASE c = "&" -> <<"&", "a", "m", "p", ";">>
      [] c = "<" -> <<"&", "l", "t", ";">>
      [] c = ">" -> <<"&", "g", "t", ";">>
      [] c = "\"" -> <<"&", "q", "u", "o", "t", ";">>
      [] c = "'" -> <<"&", "#", "x", "2", "7", ";">>
      [] OTHER -> <<c>>

RECURSIVE Entities(_)
Entities(t) == IF t = << >> THEN << >> ELSE Entity(Head(t)) \o Entities(Tail(t))

\* An entity starts at position j of b
EntityAt(b, j) ==
    \E c \in {"&", "<", ">", "\"", "'"} :
        /\ j + Len(Entity(c)) - 1 <= Len(b)
        /\ SubSeq(b, j, j + Len(Entity(c)) - 1) = Entity(c)

\* C5: between the generated tags of a page fragment there is no "<" and no
\* ">", every "&" starts an entity, and the text is there with each of its
\* "<", ">", "&" (and quotes) replaced by its entity, the rest unchanged.
C5_TextIsEscaped ==
    fragment # << >>
    => /\ \A j \in 1 .. Len(Body(fragment)) :
            /\ Body(fragment)[j] \notin {"<", ">"}
            /\ Body(fragment)[j] = "&" => EntityAt(Body(fragment), j)
       /\ Body(fragment) = Entities(text)
       /\ SubSeq(fragment, 3, 4) = <<"'>", "<pre>">>
       /\ SubSeq(fragment, Len(fragment) - 1, Len(fragment))
            = <<"</pre>", "</section>">>

C5_Witness ==
    /\ fragment # << >>
    /\ text = <<"<", "&", ">">>
    /\ Len(Body(fragment)) = 13

---------------------------------------------------------------------------
(* Properties of the style registry *)

\* The distinct keys of an intern log, first seen first
RECURSIVE FirstSeen(_)
FirstSeen(log) ==
    IF log = << >> THEN << >>
    ELSE LET before == FirstSeen(SubSeq(log, 1, Len(log) - 1))
             key == log[Len(log)].key
         IN  IF \E n \in DOMAIN before : before[n] = key
             THEN before ELSE Append(before, key)

\* C6: the k-th distinct key interned gets the class id s(k-1), a key
\* interned again gets the id it was first given, and the CSS rules are one
\* per distinct key, in first-seen order.
C6_InternFirstSeenOrder ==
    LET seen == FirstSeen(internLog)
    IN  /\ \A j \in DOMAIN internLog :
            \E k \in DOMAIN seen :
                /\ seen[k] = internLog[j].key
                /\ internLog[j].id = <<"s", k - 1>>
        /\ \A i, j \in DOMAIN internLog :
            internLog[i].key = internLog[j].key
                => internLog[i].id = internLog[j].id
        /\ Len(emit_css(registry)) = Len(seen)
        /\ \A k \in DOMAIN seen : emit_css(registry)[k] = <<<<"s", k - 1>>, seen[k]>>

C6_Witness ==
    /\ Len(internLog) = 4
    /\ internLog[1].key = internLog[3].key
    /\ internLog[2].key # internLog[1].key
    /\ internLog[4].key \notin {internLog[1].key, internLog[2].key}
    /\ internLog[3].id = <<"s", 0>>
    /\ internLog[4].id = <<"s", 2>>

====
